---- MODULE Spec2Model ----
(***************************************************************************)
(* Model of fetch_and_publish.py: the record filter (_keep_row), the       *)
(* pricing formula (_calc_fields) and the batch run (main).                *)
(*                                                                         *)
(* Units.  Money is in euro cents and percentages are in hundredths of a  *)
(* percent, so the program's float arithmetic on two-decimal inputs is     *)
(* modelled by exact rational arithmetic on integers.  Text is a sequence  *)
(* of one-character strings; a numeric or date field is a tagged value     *)
(* that records what float() / strptime() make of its text.                *)
(***************************************************************************)
EXTENDS Integers, Sequences, FiniteSets, TLC

VARIABLES
    \* ---- _calc_fields applied to one input (SpecPrice)
    p_cfg, p_in, p_out, p_pc,
    \* ---- _keep_row applied to one record (SpecKeep)
    k_cfg, k_rec, k_out, k_pc,
    \* ---- main (Spec)
    list_readable, input_list, MAX_PRODUCTS, file_names, idx, log,
    all_rows, files_done, accumulated, sorted_rows, outputs, written, pc

price_vars == <<p_cfg, p_in, p_out, p_pc>>
keep_vars  == <<k_cfg, k_rec, k_out, k_pc>>
main_vars  == <<list_readable, input_list, MAX_PRODUCTS, file_names, idx, log,
                all_rows, files_done, accumulated, sorted_rows, outputs, written, pc>>
vars == <<price_vars, keep_vars, main_vars>>

\* Python's None; an optional number is None or <<v>>.
None == <<>>

\* ------------------------------------------------------------------------
\* Arithmetic helpers
\* ------------------------------------------------------------------------
Max2(a, b) == IF a >= b THEN a ELSE b
Min2(a, b) == IF a <= b THEN a ELSE b

\* A rational n/d with d > 0.
Rat(n, d) == [n |-> n, d |-> d]
RatLeq(a, b) == a.n * b.d <= b.n * a.d
RatMax(S) == CHOOSE a \in S : \A b \in S : RatLeq(b, a)

\* math.ceil of n/d, d > 0.
Ceil(a) == -((-a.n) \div a.d)

\* round(n/d) to the nearest integer, ties to the even one (Python's round).
RoundHalfEven(n, d) ==
    LET q == n \div d
        r == n % d
    IN  IF 2 * r < d THEN q
        ELSE IF 2 * r > d THEN q + 1
        ELSE IF q % 2 = 0 THEN q ELSE q + 1

\* ------------------------------------------------------------------------
\* Pricing: _calc_fields
\* ------------------------------------------------------------------------
\* The quotient by max(1e-9, .) is capped at Huge euros when the divisor is
\* 1e-9: a numerator of one cent already gives 10^7 euros there, above every
\* max_price of the model, so the clamp min(maxP, .) is not affected.
Huge == 100000

\* (N/100 euros) / max(1e-9, D/10000), in euros.
GuardedQuot(N, D) ==
    IF D > 0 THEN Rat(N * 100, D)
    ELSE IF N > 0 THEN Rat(Huge, 1) ELSE Rat(0, 1)

_round_up_to_euro(x) == Ceil(RatMax({Rat(0, 1), x}))

\* What _calc_fields returns, from the unrounded sell price s (cents), the
\* profit in 1/10000 cent, the compliance flag and the reference price.
PricingResult(s, profit10000, ok, avp, vat) ==
    [sell_price |-> s,
     profit_eur |-> RoundHalfEven(profit10000, 10000),
     \* in units of 0.0001
     margin_pct |-> IF s > 0 THEN RoundHalfEven(profit10000, s) ELSE 0,
     ok         |-> ok,
     avp_inc    |-> avp,
     avp_excl   |-> RoundHalfEven(avp * 10000, 10000 + vat)]

\* Mutant: the compliance flag without the margin test.
_calc_fields_no_margin(pvd, avp_inc_choice, iva_pct, cfg) ==
    LET vat     == IF iva_pct # None THEN iva_pct[1] ELSE cfg.VAT_PCT_DEFAULT
        D       == 10000 - vat - cfg.BOL_FEE_PCT
        cost    == cfg.BOL_FEE_FIXED + cfg.SHIP_COST_EUR + pvd
        s1      == GuardedQuot(cfg.MIN_PROFIT_EUR + cost, D)
        s2      == GuardedQuot(cost, D - cfg.MIN_MARGIN_PCT)
        s_base  == RatMax({Rat(cfg.MIN_PRICE, 100), s1, s2, Rat(avp_inc_choice, 100)})
        s       == Min2(cfg.MAX_PRICE, _round_up_to_euro(s_base) * 100 - 1)
        profit10000 == s * D - 10000 * cost
        ok      == /\ profit10000 >= 10000 * cfg.MIN_PROFIT_EUR
                   /\ s >= cfg.MIN_PRICE
                   /\ s <= cfg.MAX_PRICE
    IN  PricingResult(s, profit10000, ok, avp_inc_choice, vat)

\* Mutant: the profit floor left out of the base price.
_calc_fields_no_profit_floor(pvd, avp_inc_choice, iva_pct, cfg) ==
    LET vat     == IF iva_pct # None THEN iva_pct[1] ELSE cfg.VAT_PCT_DEFAULT
        D       == 10000 - vat - cfg.BOL_FEE_PCT
        cost    == cfg.BOL_FEE_FIXED + cfg.SHIP_COST_EUR + pvd
        s_base  == RatMax({Rat(cfg.MIN_PRICE, 100), Rat(avp_inc_choice, 100)})
        s       == Min2(cfg.MAX_PRICE, _round_up_to_euro(s_base) * 100 - 1)
        profit10000 == s * D - 10000 * cost
        ok      == /\ profit10000 >= 10000 * cfg.MIN_PROFIT_EUR
                   /\ (IF s > 0 THEN profit10000 >= cfg.MIN_MARGIN_PCT * s
                                ELSE 0 >= cfg.MIN_MARGIN_PCT)
                   /\ s >= cfg.MIN_PRICE
                   /\ s <= cfg.MAX_PRICE
    IN  PricingResult(s, profit10000, ok, avp_inc_choice, vat)

\* pvd, avp_inc_choice in cents; iva_pct is <<v>>, v in 1/100 percent, or None.
_calc_fields(pvd, avp_inc_choice, iva_pct, cfg) ==
    LET vat     == IF iva_pct # None THEN iva_pct[1] ELSE cfg.VAT_PCT_DEFAULT
        \* 1 - vat - f_pct, in 1/10000
        D       == 10000 - vat - cfg.BOL_FEE_PCT
        cost    == cfg.BOL_FEE_FIXED + cfg.SHIP_COST_EUR + pvd
        s1      == GuardedQuot(cfg.MIN_PROFIT_EUR + cost, D)
        s2      == GuardedQuot(cost, D - cfg.MIN_MARGIN_PCT)
        \* avp_inc_choice or 0.0
        s_base  == RatMax({Rat(cfg.MIN_PRICE, 100), s1, s2, Rat(avp_inc_choice, 100)})
        s       == Min2(cfg.MAX_PRICE, _round_up_to_euro(s_base) * 100 - 1)
        \* profit, in 1/10000 cent; the factor 1 - vat - f_pct is not guarded here
        profit10000 == s * D - 10000 * cost
        \* margin >= minMarg, with margin = profit/s if s > 0 else 0.0
        ok      == /\ profit10000 >= 10000 * cfg.MIN_PROFIT_EUR
                   /\ (IF s > 0 THEN profit10000 >= cfg.MIN_MARGIN_PCT * s
                                ELSE 0 >= cfg.MIN_MARGIN_PCT)
                   /\ s >= cfg.MIN_PRICE
                   /\ s <= cfg.MAX_PRICE
    IN  PricingResult(s, profit10000, ok, avp_inc_choice, vat)

\* The documented defaults of the pricing parameters.
DefaultPricing ==
    [VAT_PCT_DEFAULT |-> 2100, SHIP_COST_EUR |-> 0, BOL_FEE_PCT |-> 1200,
     BOL_FEE_FIXED |-> 30, MIN_PROFIT_EUR |-> 300, MIN_MARGIN_PCT |-> 1500,
     MIN_PRICE |-> 1000, MAX_PRICE |-> 8000]

\* Pricing configurations of the model: min_price <= max_price throughout.
PriceBands == {<<1000, 8000>>, <<0, 0>>, <<2000, 2000>>, <<0, 8000>>}
PricingConfigs ==
    {[VAT_PCT_DEFAULT |-> 2100, SHIP_COST_EUR |-> ship, BOL_FEE_PCT |-> fee,
      BOL_FEE_FIXED |-> fix, MIN_PROFIT_EUR |-> prof, MIN_MARGIN_PCT |-> marg,
      MIN_PRICE |-> band[1], MAX_PRICE |-> band[2]] :
        ship \in {0, 500}, fee \in {1200, 8500}, fix \in {0, 30},
        prof \in {0, 300}, marg \in {0, 1500}, band \in PriceBands}

PvdValues == {0, 100, 340, 1000}
AvpValues == {0, 1500, 1550, 9000}
IvaValues == {None, <<0>>, <<2100>>}
PricingInputs ==
    {[pvd |-> c, avp |-> a, iva |-> i] : c \in PvdValues, a \in AvpValues, i \in IvaValues}

\* ------------------------------------------------------------------------
\* Text
\* ------------------------------------------------------------------------
\* str.strip(): leading and trailing blanks removed.
RECURSIVE LStrip(_)
LStrip(s) == IF s # <<>> /\ Head(s) = " " THEN LStrip(Tail(s)) ELSE s
RECURSIVE RStrip(_)
RStrip(s) ==
    IF s # <<>> /\ s[Len(s)] = " " THEN RStrip(SubSeq(s, 1, Len(s) - 1)) ELSE s
Strip(s) == RStrip(LStrip(s))

\* str.split(","): the parts between the commas; "" gives [""].
RECURSIVE SplitComma(_)
SplitComma(s) ==
    IF \A i \in 1..Len(s) : s[i] # ","
    THEN <<s>>
    ELSE LET i == CHOOSE j \in 1..Len(s) :
                     s[j] = "," /\ \A k \in 1..(j - 1) : s[k] # ","
         IN  <<SubSeq(s, 1, i - 1)>> \o SplitComma(SubSeq(s, i + 1, Len(s)))

\* str.lower() on the model's alphabet.
LowerChar(c) == CASE c = "V" -> "v" [] c = "I" -> "i" [] c = "B" -> "b" [] OTHER -> c
Lower(s) == [i \in 1..Len(s) |-> LowerChar(s[i])]

\* bad in t
IsSubstr(w, t) == \E i \in 0..(Len(t) - Len(w)) : SubSeq(t, i + 1, i + Len(w)) = w

\* The stripped, non-empty, non-comment lines of a rule file; NoFile: the
\* file does not exist.
NoFile == "NoFile"
_load_list(file) ==
    IF file = NoFile THEN <<>>
    ELSE LET keep(ln) == Strip(ln) # <<>> /\ Head(Strip(ln)) # "#"
             kept == SelectSeq(file, keep)
         IN  [i \in 1..Len(kept) |-> Strip(kept[i])]

Range(s) == {s[i] : i \in 1..Len(s)}

\* ------------------------------------------------------------------------
\* Field texts and their parsers
\* ------------------------------------------------------------------------
\* A numeric field's text: empty, text float() rejects, or a decimal literal
\* of value val/100 written without a decimal mark ("5"), with a point
\* ("5.70") or with a comma ("5,70").
Empty == [k |-> "empty"]
Junk  == [k |-> "junk"]
Num(sep, val) == [k |-> "num", sep |-> sep, val |-> val]

\* float(str(x).replace(",", ".")), in 1/100; default on failure.
_pfloat(x, default) == IF x.k = "num" THEN x.val ELSE default

\* int(float(x)): no comma replacement, truncation toward zero.
_pint(x, default) ==
    IF x.k = "num" /\ x.sep # ","
    THEN IF x.val >= 0 THEN x.val \div 100 ELSE -((-x.val) \div 100)
    ELSE default

\* A timestamp field's text: empty, text strptime() rejects, or a timestamp
\* that lies age_hours hours before datetime.now().
Stamp(h) == [k |-> "ts", age_hours |-> h]

\* timedelta.days is the floor of the age in days.
_is_recent(iso, cfg) ==
    IF iso.k = "empty" THEN TRUE
    ELSE IF iso.k = "ts" THEN (iso.age_hours \div 24) <= cfg.RECENT_MONTHS * 30
    ELSE TRUE

_has_allowed_category(cat_field, cfg) ==
    IF cfg.ALLOW_CATS = {} THEN TRUE
    ELSE LET raw   == SplitComma(cat_field)
             parts == {Strip(raw[i]) : i \in 1..Len(raw)} \ {<<>>}
         IN  \E p \in parts : p \in cfg.ALLOW_CATS

_has_bad_word(name, desc, cfg) ==
    IF cfg.DENY_WORDS = {} THEN FALSE
    ELSE LET t == Lower(name \o <<" ">> \o desc)
         IN  \E bad \in cfg.DENY_WORDS : IsSubstr(bad, t)

\* Mutant: the price band taken exclusive of its bounds.
_keep_row_open_band(r, cfg) ==
    /\ _has_allowed_category(r.category, cfg)
    /\ ~(_pint(r.stock, 0) < cfg.MIN_STOCK)
    /\ (cfg.MIN_PRICE < _pfloat(r.price, 0) /\ _pfloat(r.price, 0) < cfg.MAX_PRICE)
    /\ ~(r.ean13 = <<>> \/ r.image1 = <<>>)
    /\ ~(_pfloat(r.weight, 0) # 0 /\ _pfloat(r.weight, 0) > cfg.MAX_WEIGHT)
    /\ ~(r.date_upd.k # "empty" /\ ~_is_recent(r.date_upd, cfg))
    /\ ~(cfg.ALLOW_BRANDS # {} /\ r.brand \notin cfg.ALLOW_BRANDS)
    /\ ~_has_bad_word(r.name, r.description, cfg)

\* Mutant: the stock test reversed.
_keep_row_stock_reversed(r, cfg) ==
    /\ _has_allowed_category(r.category, cfg)
    /\ ~(_pint(r.stock, 0) > cfg.MIN_STOCK)
    /\ (cfg.MIN_PRICE <= _pfloat(r.price, 0) /\ _pfloat(r.price, 0) <= cfg.MAX_PRICE)
    /\ ~(r.ean13 = <<>> \/ r.image1 = <<>>)
    /\ ~(_pfloat(r.weight, 0) # 0 /\ _pfloat(r.weight, 0) > cfg.MAX_WEIGHT)
    /\ ~(r.date_upd.k # "empty" /\ ~_is_recent(r.date_upd, cfg))
    /\ ~(cfg.ALLOW_BRANDS # {} /\ r.brand \notin cfg.ALLOW_BRANDS)
    /\ ~_has_bad_word(r.name, r.description, cfg)

\* Each conjunct is one "if ...: return False" of the function, in its order.
_keep_row(r, cfg) ==
    /\ _has_allowed_category(r.category, cfg)
    /\ ~(_pint(r.stock, 0) < cfg.MIN_STOCK)
    /\ (cfg.MIN_PRICE <= _pfloat(r.price, 0) /\ _pfloat(r.price, 0) <= cfg.MAX_PRICE)
    /\ ~(r.ean13 = <<>> \/ r.image1 = <<>>)
    /\ ~(_pfloat(r.weight, 0) # 0 /\ _pfloat(r.weight, 0) > cfg.MAX_WEIGHT)
    /\ ~(r.date_upd.k # "empty" /\ ~_is_recent(r.date_upd, cfg))
    /\ ~(cfg.ALLOW_BRANDS # {} /\ r.brand \notin cfg.ALLOW_BRANDS)
    /\ ~_has_bad_word(r.name, r.description, cfg)

\* ------------------------------------------------------------------------
\* Records and rule sets of the model
\* ------------------------------------------------------------------------
\* One parsed product: FIELDS, each the stripped text of its element.
Product(id, cat, stock, price, ean, img, weight, date, brand, name, desc) ==
    [id |-> id, name |-> name, description |-> desc, price |-> price,
     pvp_bigbuy |-> Empty, pvd |-> Num(".", 1000), iva |-> Empty,
     ean13 |-> ean, stock |-> stock, image1 |-> img, category |-> cat,
     brand |-> brand, date_upd |-> date,
     width |-> Empty, height |-> Empty, depth |-> Empty, weight |-> weight]

\* The documented defaults of the filter thresholds, no rule file present.
\* Prices in cents, weight in 1/100 kg.
DefaultRules ==
    [ALLOW_CATS |-> {}, DENY_WORDS |-> {}, ALLOW_BRANDS |-> {},
     MIN_PRICE |-> 1000, MAX_PRICE |-> 8000, MIN_STOCK |-> 1,
     MAX_WEIGHT |-> 800, RECENT_MONTHS |-> 18]

\* ALLOW_CATS, DENY_WORDS, ALLOW_BRANDS as loaded from the three rule files.
LoadRules(cats_file, deny_file, brands_file, base) ==
    [base EXCEPT !.ALLOW_CATS   = Range(_load_list(cats_file)),
                 !.DENY_WORDS   = {Lower(w) : w \in Range(_load_list(deny_file))},
                 !.ALLOW_BRANDS = Range(_load_list(brands_file))]

Thresholds == {"MIN_PRICE", "MAX_PRICE", "MIN_STOCK", "MAX_WEIGHT", "RECENT_MONTHS"}
ThresholdValues ==
    [MIN_PRICE |-> {1000, 1250}, MAX_PRICE |-> {8000, 1250}, MIN_STOCK |-> {0, 1, 3},
     MAX_WEIGHT |-> {800, 100}, RECENT_MONTHS |-> {18, 1}]

CatsFiles   == {NoFile, <<<<" ", "a">>, <<"#", "b">>, <<" ">>>>}
DenyFiles   == {NoFile, <<<<"V", "i">>>>, <<<<"v", " ", "i", " ">>>>}
BrandsFiles == {NoFile, <<<<"A">>, <<>>>>}

\* The default rule set, and every rule set that differs from it in one
\* threshold or in one rule file.
KeepRules ==
    {DefaultRules}
    \cup UNION {{[DefaultRules EXCEPT ![t] = v] : v \in ThresholdValues[t]} : t \in Thresholds}
    \cup {LoadRules(c, NoFile, NoFile, DefaultRules) : c \in CatsFiles}
    \cup {LoadRules(NoFile, d, NoFile, DefaultRules) : d \in DenyFiles}
    \cup {LoadRules(NoFile, NoFile, b, DefaultRules) : b \in BrandsFiles}

CategoryTexts == {<<>>, <<"b", ",", " ", "a", " ">>, <<"b", ",", " ">>}
StockTexts    == {Empty, Num("", 100), Num(".", 290), Num(",", 300)}
PriceTexts    == {Empty, Junk, Num(",", 1250), Num("", 8000)}
WeightTexts   == {Empty, Junk, Num(".", 800), Num(",", 850)}
DateTexts     == {Empty, Junk, Stamp(732), Stamp(12972), Stamp(12984)}
IdentTexts    == {<<<<"8">>, <<"u">>>>, <<<<>>, <<"u">>>>, <<<<"8">>, <<>>>>}
BrandTexts    == {<<"A">>, <<"Z">>}
NameTexts     == {<<<<"x">>, <<>>>>, <<<<"V", "I">>, <<>>>>, <<<<"V">>, <<"i">>>>}

KeepRecords ==
    {Product(<<"p">>, c, s, p, e[1], e[2], w, d, b, n[1], n[2]) :
        c \in CategoryTexts, s \in StockTexts, p \in PriceTexts, e \in IdentTexts,
        w \in WeightTexts, d \in DateTexts, b \in BrandTexts, n \in NameTexts}

\* ------------------------------------------------------------------------
\* main: the source file list, the remote files, fetch and parse
\* ------------------------------------------------------------------------
FIELDS == <<"id", "name", "description", "price", "pvp_bigbuy", "pvd", "iva",
            "ean13", "stock", "image1", "category", "brand", "date_upd",
            "width", "height", "depth", "weight">>
NumericFields == {"price", "pvp_bigbuy", "pvd", "iva", "stock",
                  "width", "height", "depth", "weight"}

\* The empty string, in the representation of field f.
EmptyText(f) == IF f \in NumericFields \cup {"date_upd"} THEN Empty ELSE <<>>

\* The non-empty, non-comment lines of products_list.txt, stripped.
ReadFileNames(lines) ==
    LET keep(ln) == Strip(ln) # <<>> /\ Head(Strip(ln)) # "#"
        kept == SelectSeq(lines, keep)
    IN  [i \in 1..Len(kept) |-> Strip(kept[i])]

\* A <product> element: its child elements' stripped texts; a child that is
\* absent is not in the element's domain.
Element(id, stock, price) ==
    [id |-> id, name |-> <<"n">>, price |-> price, pvd |-> Num(".", 1000),
     ean13 |-> <<"8">>, stock |-> stock, image1 |-> <<"u">>, brand |-> <<"A", "&", "Z">>]

\* The same, with no <stock> and no <weight> child.
ElementNoStock(id, price) ==
    [id |-> id, name |-> <<"n">>, price |-> price, pvd |-> Num(".", 1000),
     ean13 |-> <<"8">>, image1 |-> <<"u">>]

\* The well-formed documents on the server, by file name.
RemoteDocument(name) ==
    CASE name = <<"fE">> ->
            <<Element(<<"e1">>, Num("", 500),  Num("", 3000)),
              Element(<<"e2">>, Num("", 2000), Num("", 2000)),
              Element(<<"e3">>, Num("", 100),  Num("", 1000))>>
      [] name = <<"fT">> ->
            <<Element(<<"t1">>, Num(".", 500), Num(",", 3000)),
              ElementNoStock(<<"t2">>, Num("", 2000)),
              Element(<<"t3">>, Num(".", 590), Num(".", 1250))>>
      [] OTHER ->
            <<Element(<<"u1">>, Num("", 2000), Num(".", 2000)),
              Element(<<"u2">>, Num(",", 2000), Num("", 2000))>>

\* What _ftp_fetch gives for a file: an exception, or the bytes, which are
\* a malformed document or the file's well-formed one.
FetchError == [kind |-> "fetch_error"]
Malformed  == [kind |-> "malformed"]
Bytes(doc) == [kind |-> "document", products |-> doc]
_ftp_fetch(name) == {FetchError, Malformed, Bytes(RemoteDocument(name))}

\* One row per <product>, in document order; every field of FIELDS present,
\* "" for an absent child.  Called on well-formed bytes only: ET.fromstring
\* raises on malformed ones.
_parse_xml(raw) ==
    [i \in 1..Len(raw.products) |->
        [f \in Range(FIELDS) |->
            IF f \in DOMAIN raw.products[i] THEN raw.products[i][f] ELSE EmptyText(f)]]

\* The rule set and pricing parameters of the run: the defaults.
RunRules   == DefaultRules
RunPricing == DefaultPricing
AVP_SOURCE == "price"

\* ------------------------------------------------------------------------
\* main: sort and truncate
\* ------------------------------------------------------------------------
\* key=lambda r: (-_pint(stock), _pfloat(price))
SortKey(r) == <<-_pint(r.stock, 0), _pfloat(r.price, 0)>>
KeyLess(a, b) == a[1] < b[1] \/ (a[1] = b[1] /\ a[2] < b[2])

\* x placed behind every row whose key is not greater than its own.
RECURSIVE InsertStable(_, _)
InsertStable(x, rows) ==
    IF rows = <<>> THEN <<x>>
    ELSE IF KeyLess(SortKey(x), SortKey(Head(rows)))
         THEN <<x>> \o rows
         ELSE <<Head(rows)>> \o InsertStable(x, Tail(rows))

RECURSIVE SortPrefix(_, _)
SortPrefix(rows, n) ==
    IF n = 0 THEN <<>> ELSE InsertStable(rows[n], SortPrefix(rows, n - 1))

\* Mutant: sorted by stock alone.
RECURSIVE InsertByStock(_, _)
InsertByStock(x, rows) ==
    IF rows = <<>> THEN <<x>>
    ELSE IF SortKey(x)[1] < SortKey(Head(rows))[1]
         THEN <<x>> \o rows
         ELSE <<Head(rows)>> \o InsertByStock(x, Tail(rows))
RECURSIVE SortPrefixByStock(_, _)
SortPrefixByStock(rows, n) ==
    IF n = 0 THEN <<>> ELSE InsertByStock(rows[n], SortPrefixByStock(rows, n - 1))
SortRowsByStock(rows) == SortPrefixByStock(rows, Len(rows))

\* Mutant: a row placed in front of the rows of equal key (not stable).
RECURSIVE InsertFront(_, _)
InsertFront(x, rows) ==
    IF rows = <<>> THEN <<x>>
    ELSE IF ~KeyLess(SortKey(Head(rows)), SortKey(x))
         THEN <<x>> \o rows
         ELSE <<Head(rows)>> \o InsertFront(x, Tail(rows))
RECURSIVE SortPrefixUnstable(_, _)
SortPrefixUnstable(rows, n) ==
    IF n = 0 THEN <<>> ELSE InsertFront(rows[n], SortPrefixUnstable(rows, n - 1))
SortRowsUnstable(rows) == SortPrefixUnstable(rows, Len(rows))

\* list.sort(key=...): ascending in the key, stable.
SortRows(rows) == SortPrefix(rows, Len(rows))

\* rows[:m], Python's slice: a negative m counts from the end.
Slice(rows, m) ==
    IF m >= 0 THEN SubSeq(rows, 1, Min2(m, Len(rows)))
    ELSE SubSeq(rows, 1, Max2(0, Len(rows) + m))

\* Mutant: one row too many kept.
TruncateOffByOne(rows, max) ==
    IF max # 0 /\ Len(rows) > max THEN Slice(rows, max + 1) ELSE rows

\* if MAX_PRODUCTS and len(all_rows) > MAX_PRODUCTS: all_rows[:MAX_PRODUCTS]
Truncate(rows, max) ==
    IF max # 0 /\ Len(rows) > max THEN Slice(rows, max) ELSE rows

\* ------------------------------------------------------------------------
\* main: the output writers
\* ------------------------------------------------------------------------
\* _pfloat(r.get("iva"), None) if r.get("iva") != "" else None
IvaPct(r) == IF r.iva.k = "num" THEN <<_pfloat(r.iva, 0)>> ELSE None

\* The pricing columns of a row.
Priced(r) ==
    LET pvd_val    == _pfloat(r.pvd, 0)
        price_inc  == _pfloat(r.price, 0)
        pvp_inc    == _pfloat(r.pvp_bigbuy, 0)
        avp_choice == IF AVP_SOURCE = "pvp_bigbuy" THEN pvp_inc ELSE price_inc
    IN  _calc_fields(pvd_val, avp_choice, IvaPct(r), RunPricing)

PreviewRow(r) ==
    ("Keep?" :> <<>>) @@ r @@ Priced(r)
    @@ ("image_preview" :>
            IF r.image1 # <<>> THEN <<"=IMAGE(\"">> \o r.image1 \o <<"\")">> ELSE <<>>)

LightKeys == {"id", "name", "price", "pvp_bigbuy", "pvd", "iva", "ean13", "stock",
              "image1", "brand"}
LightRow(r) == ("Keep?" :> <<>>) @@ [k \in LightKeys |-> r[k]] @@ Priced(r)

\* esc(): & < > replaced by their entities.
EscChar(c) ==
    CASE c = "&" -> "&amp;" [] c = "<" -> "&lt;" [] c = ">" -> "&gt;" [] OTHER -> c
XmlProduct(r) ==
    [k \in Range(FIELDS) |->
        IF k \in {"name", "description"} THEN <<"<![CDATA[">> \o r[k] \o <<"]]>">>
        ELSE IF k \in NumericFields \cup {"date_upd"} THEN r[k]
        ELSE [i \in 1..Len(r[k]) |-> EscChar(r[k][i])]]

\* ------------------------------------------------------------------------
\* main: the run
\* ------------------------------------------------------------------------
MaxLines == 3
ListLines == {<<"fE">>, <<" ", "fT", " ">>, <<"fU">>, <<"#", "fE">>, <<" ">>}
MaxProductsValues == {-1, 0, 2}

RECURSIVE SeqsUpTo(_, _)
SeqsUpTo(S, n) ==
    IF n = 0 THEN {<<>>}
    ELSE LET shorter == SeqsUpTo(S, n - 1)
         IN  shorter \cup {Append(s, x) : s \in shorter, x \in S}

MainInit ==
    /\ list_readable \in BOOLEAN
    /\ input_list \in (IF list_readable THEN SeqsUpTo(ListLines, MaxLines) ELSE {<<>>})
    /\ MAX_PRODUCTS \in MaxProductsValues
    /\ file_names = <<>>
    /\ idx = 0
    /\ log = <<>>
    /\ all_rows = <<>>
    /\ files_done = 0
    /\ accumulated = <<>>
    /\ sorted_rows = <<>>
    /\ outputs = [f \in {} |-> <<>>]
    /\ written = <<>>
    /\ pc = "read_list"

\* with open(INPUT_LIST) ...: an unreadable list raises and ends the run.
ReadList ==
    /\ pc = "read_list"
    /\ \/ /\ list_readable
          /\ file_names' = ReadFileNames(input_list)
          /\ pc' = "connect"
       \/ /\ ~list_readable
          /\ pc' = "aborted"
          /\ UNCHANGED file_names
    /\ UNCHANGED <<list_readable, input_list, MAX_PRODUCTS, idx, log, all_rows,
                   files_done, accumulated, sorted_rows, outputs, written,
                   price_vars, keep_vars>>

\* ftplib.FTP(HOST, timeout=60), set_pasv, login: outside the loop's try, so
\* a connection or login failure raises out of main.
Connect ==
    /\ pc = "connect"
    /\ \/ pc' = "loop"
       \/ pc' = "aborted"
    /\ UNCHANGED <<list_readable, input_list, MAX_PRODUCTS, file_names, idx, log,
                   all_rows, files_done, accumulated, sorted_rows, outputs, written,
                   price_vars, keep_vars>>

\* Mutant: the rows of a file are added before its parse is known to succeed.
ProcessFileEarlyExtend ==
    /\ pc = "loop"
    /\ idx < Len(file_names)
    /\ LET name == file_names[idx + 1]
       IN  \E raw \in _ftp_fetch(name) :
              LET rows == _parse_xml(Bytes(RemoteDocument(name)))
                  kept == SelectSeq(rows, LAMBDA r : _keep_row(r, RunRules))
              IN  IF raw.kind = "document"
                  THEN /\ files_done' = files_done + 1
                       /\ all_rows' = all_rows \o kept
                       /\ log' = Append(log, [name |-> name, status |-> "ok",
                                              parsed |-> Len(rows), kept |-> Len(kept)])
                  ELSE /\ all_rows' = all_rows \o kept
                       /\ log' = Append(log, [name |-> name, status |-> "warn",
                                              error |-> raw.kind])
                       /\ UNCHANGED files_done
    /\ idx' = idx + 1
    /\ UNCHANGED <<list_readable, input_list, MAX_PRODUCTS, file_names, accumulated,
                   sorted_rows, outputs, written, pc, price_vars, keep_vars>>

\* One iteration of "for name in file_names": fetch, parse, filter and
\* extend, or the except branch, which only prints the warning.
ProcessFile ==
    /\ pc = "loop"
    /\ idx < Len(file_names)
    /\ LET name == file_names[idx + 1]
       IN  \E raw \in _ftp_fetch(name) :
              IF raw.kind = "document"
              THEN LET rows == _parse_xml(raw)
                       kept == SelectSeq(rows, LAMBDA r : _keep_row(r, RunRules))
                   IN  /\ files_done' = files_done + 1
                       /\ all_rows' = all_rows \o kept
                       /\ log' = Append(log, [name |-> name, status |-> "ok",
                                              parsed |-> Len(rows), kept |-> Len(kept)])
              ELSE /\ log' = Append(log, [name |-> name, status |-> "warn",
                                          error |-> raw.kind])
                   /\ UNCHANGED <<all_rows, files_done>>
    /\ idx' = idx + 1
    /\ UNCHANGED <<list_readable, input_list, MAX_PRODUCTS, file_names, accumulated,
                   sorted_rows, outputs, written, pc, price_vars, keep_vars>>

\* all_rows.sort(...), once the loop is over; accumulated keeps the list as
\* it was before the sort.
Sort ==
    /\ pc = "loop"
    /\ idx = Len(file_names)
    /\ accumulated' = all_rows
    /\ all_rows' = SortRows(all_rows)
    /\ pc' = "truncate"
    /\ UNCHANGED <<list_readable, input_list, MAX_PRODUCTS, file_names, idx, log,
                   files_done, sorted_rows, outputs, written, price_vars, keep_vars>>

\* The cut to MAX_PRODUCTS; sorted_rows keeps the list as it was before.
TruncateStep ==
    /\ pc = "truncate"
    /\ sorted_rows' = all_rows
    /\ all_rows' = Truncate(all_rows, MAX_PRODUCTS)
    /\ pc' = "write_preview"
    /\ UNCHANGED <<list_readable, input_list, MAX_PRODUCTS, file_names, idx, log,
                   files_done, accumulated, outputs, written, price_vars, keep_vars>>

\* One output file written; the files of OUT_DIR are taken to be writable.
WriteFile(at, name, content, next) ==
    /\ pc = at
    /\ outputs' = (name :> content) @@ outputs
    /\ written' = Append(written, name)
    /\ pc' = next
    /\ UNCHANGED <<list_readable, input_list, MAX_PRODUCTS, file_names, idx, log,
                   all_rows, files_done, accumulated, sorted_rows,
                   price_vars, keep_vars>>

WritePreview ==
    WriteFile("write_preview", "catalog_preview.csv", [i \in 1..Len(all_rows) |-> PreviewRow(all_rows[i])],
              "write_light")
WriteLight ==
    WriteFile("write_light", "catalog_light.csv", [i \in 1..Len(all_rows) |-> LightRow(all_rows[i])],
              "write_xml")
WriteXml ==
    WriteFile("write_xml", "feed.xml", [i \in 1..Len(all_rows) |-> XmlProduct(all_rows[i])],
              "write_last_run")
WriteLastRun ==
    WriteFile("write_last_run", "last_run.txt", <<"utcnow">>, "write_ping")
WritePing ==
    WriteFile("write_ping", "_ping.txt", <<"ok">>, "done")

MainNext ==
    \/ ReadList \/ Connect \/ ProcessFile \/ Sort \/ TruncateStep
    \/ WritePreview \/ WriteLight \/ WriteXml \/ WriteLastRun \/ WritePing

\* ------------------------------------------------------------------------
\* The pure functions applied to one input
\* ------------------------------------------------------------------------
PriceInit ==
    /\ p_cfg \in PricingConfigs
    /\ p_in \in PricingInputs
    /\ p_out = None
    /\ p_pc = "ready"

CalcFields ==
    /\ p_pc = "ready"
    /\ p_out' = _calc_fields(p_in.pvd, p_in.avp, p_in.iva, p_cfg)
    /\ p_pc' = "done"
    /\ UNCHANGED <<p_cfg, p_in, keep_vars, main_vars>>

KeepInit ==
    /\ k_cfg \in KeepRules
    /\ k_rec \in KeepRecords
    /\ k_out = None
    /\ k_pc = "ready"

KeepRow ==
    /\ k_pc = "ready"
    /\ k_out' = _keep_row(k_rec, k_cfg)
    /\ k_pc' = "done"
    /\ UNCHANGED <<k_cfg, k_rec, price_vars, main_vars>>

\* The parts of the state a specification does not use.
PriceIdle == p_cfg = None /\ p_in = None /\ p_out = None /\ p_pc = "idle"
KeepIdle  == k_cfg = None /\ k_rec = None /\ k_out = None /\ k_pc = "idle"
MainIdle  ==
    /\ list_readable = FALSE /\ input_list = <<>> /\ MAX_PRODUCTS = 0
    /\ file_names = <<>> /\ idx = 0 /\ log = <<>> /\ all_rows = <<>>
    /\ files_done = 0 /\ accumulated = <<>> /\ sorted_rows = <<>>
    /\ outputs = <<>> /\ written = <<>> /\ pc = "idle"

Init == MainInit /\ PriceIdle /\ KeepIdle
Next == MainNext
InitPrice == PriceInit /\ KeepIdle /\ MainIdle
InitKeep == KeepInit /\ PriceIdle /\ MainIdle

\* One run of main.
Spec == Init /\ [][Next]_vars
\* _calc_fields on one input and configuration.
SpecPrice == InitPrice /\ [][CalcFields]_vars
\* _keep_row on one record and rule set.
SpecKeep == InitKeep /\ [][KeepRow]_vars

\* ------------------------------------------------------------------------
\* Pricing properties (SpecPrice)
\* ------------------------------------------------------------------------
PriceDone == p_pc = "done"

\* C1: for every wholesale cost, reference retail price, tax rate and
\* configuration with min_price <= max_price, the sell price is at least
\* max(min_price, reference retail price) and at most max_price.
C1_PricingFloor ==
    PriceDone =>
        /\ p_out.sell_price >= Max2(p_cfg.MIN_PRICE, p_in.avp)
        /\ p_out.sell_price <= p_cfg.MAX_PRICE

\* Scenario A: cost 10.00, reference retail 15.00, tax 21%, fee 12% + 0.30,
\* shipping 0, minimum profit 3.00, minimum margin 15%, band [10, 80].
ScenarioA ==
    /\ p_cfg = DefaultPricing
    /\ p_in = [pvd |-> 1000, avp |-> 1500, iva |-> <<2100>>]

\* C2, as claimed: in scenario A the sell price is 24.99.
C2_ScenarioA_2499 == (PriceDone /\ ScenarioA) => p_out.sell_price = 2499

\* C2, amended: in scenario A the sell price is 19.99 (floors 19.85 and
\* 19.81, rounded up to 20, less one cent).
C2_ScenarioA_1999 == (PriceDone /\ ScenarioA) => p_out.sell_price = 1999

C2_Witness == PriceDone /\ ScenarioA /\ p_out.ok

\* Profit, in 1/10000 cent, recomputed from a returned sell price:
\* sell * (1 - vat - fee_pct) - (fee_fixed + ship + wholesale_cost).
RecomputedProfit(sell) ==
    LET vat == IF p_in.iva = None THEN p_cfg.VAT_PCT_DEFAULT ELSE p_in.iva[1]
    IN  sell * (10000 - vat - p_cfg.BOL_FEE_PCT)
        - 10000 * (p_cfg.BOL_FEE_FIXED + p_cfg.SHIP_COST_EUR + p_in.pvd)

KeepDone == k_pc = "done"

\* The eight conditions of the filter contract, for record r and rule set c.
CategoryAllowed(r, c) ==
    \/ c.ALLOW_CATS = {}
    \/ \E i \in 1..Len(SplitComma(r.category)) :
          Strip(SplitComma(r.category)[i]) \in c.ALLOW_CATS
StockValue(r) == IF r.stock.k = "num" THEN _pint(r.stock, 0) ELSE 0
StockEnough(r, c) == StockValue(r) >= c.MIN_STOCK
PriceValue(r) == IF r.price.k = "num" THEN r.price.val ELSE 0
PriceInBand(r, c) == c.MIN_PRICE <= PriceValue(r) /\ PriceValue(r) <= c.MAX_PRICE
Identified(r) == r.ean13 # <<>> /\ r.image1 # <<>>
WeightAllowed(r, c) ==
    \/ r.weight.k # "num"
    \/ r.weight.val = 0
    \/ r.weight.val <= c.MAX_WEIGHT
DateAllowed(r, c) ==
    \/ r.date_upd.k # "ts"
    \/ r.date_upd.age_hours \div 24 <= c.RECENT_MONTHS * 30
BrandAllowed(r, c) == c.ALLOW_BRANDS = {} \/ r.brand \in c.ALLOW_BRANDS
NoDenyWord(r, c) ==
    \A w \in c.DENY_WORDS : ~IsSubstr(w, Lower(r.name \o <<" ">> \o r.description))
OtherSeven(r, c) ==
    /\ CategoryAllowed(r, c) /\ PriceInBand(r, c) /\ Identified(r)
    /\ WeightAllowed(r, c) /\ DateAllowed(r, c) /\ BrandAllowed(r, c)
    /\ NoDenyWord(r, c)

\* C4: _keep_row returns true if and only if all eight conditions hold; an
\* unparseable date_upd never rejects, and a record with missing stock that
\* meets the other seven is rejected exactly when MIN_STOCK > 0.
C4_KeepIffAllEight ==
    KeepDone =>
        /\ k_out <=> (StockEnough(k_rec, k_cfg) /\ OtherSeven(k_rec, k_cfg))
        /\ (k_rec.date_upd = Junk /\ StockEnough(k_rec, k_cfg)
              /\ OtherSeven([k_rec EXCEPT !.date_upd = Empty], k_cfg)) => k_out
        /\ (k_rec.stock = Empty /\ OtherSeven(k_rec, k_cfg))
              => (~k_out <=> k_cfg.MIN_STOCK > 0)

\* A kept record with an unparseable date, a comma-decimal price on the
\* band's bound and a category list with blanks, under a category allow-list.
C4_Witness ==
    /\ KeepDone
    /\ k_out
    /\ k_rec.date_upd = Junk
    /\ k_rec.price = Num(",", 1250)
    /\ k_cfg.ALLOW_CATS # {}

\* The values of threshold t that are at least as wide as v.
Wider(t, v) ==
    {w \in ThresholdValues[t] :
        IF t \in {"MIN_PRICE", "MIN_STOCK"} THEN w <= v ELSE w >= v}
Tighter(t, v) ==
    {w \in ThresholdValues[t] :
        IF t \in {"MIN_PRICE", "MIN_STOCK"} THEN w >= v ELSE w <= v}

\* C9: a record kept under a rule set is kept under every rule set that
\* differs from it in one threshold only and is wider there; a record rejected
\* is rejected under every one that is tighter there.
C9_FilterMonotone ==
    KeepDone =>
        \A t \in Thresholds :
            /\ k_out => \A w \in Wider(t, k_cfg[t]) :
                            _keep_row(k_rec, [k_cfg EXCEPT ![t] = w])
            /\ ~k_out => \A w \in Tighter(t, k_cfg[t]) :
                            ~_keep_row(k_rec, [k_cfg EXCEPT ![t] = w])

\* A record rejected under the rule set and kept once one threshold is widened.
C9_Witness ==
    /\ KeepDone
    /\ ~k_out
    /\ \E t \in Thresholds :
          \E w \in Wider(t, k_cfg[t]) : _keep_row(k_rec, [k_cfg EXCEPT ![t] = w])

\* ------------------------------------------------------------------------
\* Run properties (Spec)
\* ------------------------------------------------------------------------
\* The kept records of a file that is fetched and parsed.
KeptOfFile(name) ==
    SelectSeq(_parse_xml(Bytes(RemoteDocument(name))), LAMBDA r : _keep_row(r, RunRules))

\* The kept records of the files that succeeded among names, in that order;
\* ok[i] tells whether names[i] succeeded.
RECURSIVE Accumulate(_, _, _)
Accumulate(names, ok, n) ==
    IF n = 0 THEN <<>>
    ELSE Accumulate(names, ok, n - 1) \o (IF ok[n] THEN KeptOfFile(names[n]) ELSE <<>>)

Succeeded == [i \in 1..Len(log) |-> log[i].status = "ok"]
AfterLoop == pc \notin {"read_list", "connect", "loop", "aborted", "idle"}

\* C5: a failing file adds no record, leaves the records of earlier files
\* as they are and does not end the loop; after the loop the accumulated list
\* is the concatenation, in list order, of the kept records of the files that
\* succeeded.
C5_PerFileIsolation ==
    /\ pc = "loop" =>
          /\ Len(log) = idx
          /\ \A i \in 1..idx : log[i].name = file_names[i]
          /\ all_rows = Accumulate(file_names, Succeeded, idx)
          /\ files_done = Cardinality({i \in 1..idx : Succeeded[i]})
    /\ AfterLoop =>
          /\ Len(log) = Len(file_names)
          /\ accumulated = Accumulate(file_names, Succeeded, Len(file_names))
    /\ pc = "aborted" => idx = 0

\* A file with kept records, then a failing file, then again a file with
\* kept records, and the loop over.
C5_Witness ==
    /\ pc = "loop"
    /\ idx = Len(file_names)
    /\ idx = 3
    /\ log[1].status = "ok" /\ log[1].kept > 0
    /\ log[2].status = "warn"
    /\ log[3].status = "ok" /\ log[3].kept > 0

OutputFiles == <<"catalog_preview.csv", "catalog_light.csv", "feed.xml",
                 "last_run.txt", "_ping.txt">>

\* C6: a run whose source file list is readable never aborts (an unreadable
\* list is the only condition that aborts the run), and when it is over the
\* three output files and then the two markers are written.
C6_OnlyUnreadableListAborts ==
    /\ pc = "aborted" => ~list_readable
    /\ pc = "done" => written = OutputFiles

Keys(rows) == [i \in 1..Len(rows) |-> SortKey(rows[i])]
Ordered(rows) == \A i \in 1..(Len(rows) - 1) : ~KeyLess(SortKey(rows[i + 1]), SortKey(rows[i]))
WithKey(rows, key) == SelectSeq(rows, LAMBDA r : SortKey(r) = key)

\* C7: after the sort the rows are those of the pre-sort list, by descending
\* stock and, among equal stock, ascending price; the rows of one stock and
\* price are in their pre-sort order.
C7_SortedStablePermutation ==
    pc = "truncate" =>
        /\ Len(all_rows) = Len(accumulated)
        /\ Ordered(all_rows)
        /\ \A key \in Range(Keys(accumulated)) \cup Range(Keys(all_rows)) :
              WithKey(all_rows, key) = WithKey(accumulated, key)

\* A sort that moved rows and met two different rows of one stock and price.
C7_Witness ==
    /\ pc = "truncate"
    /\ all_rows # accumulated
    /\ \E i, j \in 1..Len(all_rows) :
          i < j /\ all_rows[i] # all_rows[j] /\ SortKey(all_rows[i]) = SortKey(all_rows[j])

IsPrefix(a, b) == Len(a) <= Len(b) /\ a = SubSeq(b, 1, Len(a))
Truncated == pc \in {"write_preview", "write_light", "write_xml", "write_last_run",
                     "write_ping", "done"}
\* Scenario E: maximum 2, kept records with stocks 5, 20, 1 and prices 30, 20, 10.
ScenarioE ==
    /\ MAX_PRODUCTS = 2
    /\ Keys(accumulated) = <<<<-5, 3000>>, <<-20, 2000>>, <<-1, 1000>>>>
ScenarioEResult == Keys(all_rows) = <<<<-20, 2000>>, <<-5, 3000>>>>

\* C8, as claimed: for every maximum the final list is a prefix of the sorted
\* one, of exactly the maximum's length when the maximum is set and exceeded,
\* and the whole sorted list otherwise.
C8_TruncationAsClaimed ==
    Truncated =>
        /\ IsPrefix(all_rows, sorted_rows)
        /\ IF MAX_PRODUCTS # 0 /\ Len(sorted_rows) > MAX_PRODUCTS
           THEN Len(all_rows) = MAX_PRODUCTS
           ELSE all_rows = sorted_rows
        /\ ScenarioE => ScenarioEResult

\* C8, amended: the same for every maximum >= 0; under a negative maximum m
\* the final list is the sorted one without its last -m records.
C8_Truncation ==
    Truncated =>
        /\ IsPrefix(all_rows, sorted_rows)
        /\ MAX_PRODUCTS >= 0 =>
              IF MAX_PRODUCTS # 0 /\ Len(sorted_rows) > MAX_PRODUCTS
              THEN Len(all_rows) = MAX_PRODUCTS
              ELSE all_rows = sorted_rows
        /\ MAX_PRODUCTS < 0 =>
              Len(all_rows) = Max2(0, Len(sorted_rows) + MAX_PRODUCTS)
        /\ ScenarioE => ScenarioEResult

C8_Witness == Truncated /\ ScenarioE /\ Len(sorted_rows) = 3 /\ Len(all_rows) = 2

\* The kept records each position of the file list contributes: those of its
\* file if the file succeeded, none otherwise.
Contribution ==
    [i \in 1..Len(file_names) |->
        IF Succeeded[i] THEN KeptOfFile(file_names[i]) ELSE <<>>]
RECURSIVE Concat(_, _, _)
Concat(parts, p, n) == IF n = 0 THEN <<>> ELSE Concat(parts, p, n - 1) \o parts[p[n]]

\* The output of a run over the same files, each with the same outcome, with
\* the file list in the order p (a permutation of its positions).
Perms(n) == {p \in [1..n -> 1..n] : \A i, j \in 1..n : p[i] = p[j] => i = j}
RunOutput(parts, p) == Truncate(SortRows(Concat(parts, p, Len(parts))), MAX_PRODUCTS)
NoTies(rows) ==
    \A i, j \in 1..Len(rows) : SortKey(rows[i]) = SortKey(rows[j]) => rows[i] = rows[j]

\* C10, as claimed: the output does not depend on the order of the file list.
C10_FileOrderIndependent ==
    pc = "done" =>
        LET parts == Contribution
        IN  \A p \in Perms(Len(file_names)) : RunOutput(parts, p) = all_rows

\* C10, amended: the stocks and prices of the output, position by position,
\* do not depend on the order of the file list, and neither does the output
\* when no two different kept records have the same stock and price.
C10_KeysFileOrderIndependent ==
    pc = "done" =>
        LET parts == Contribution
            keys  == Keys(all_rows)
            free  == NoTies(accumulated)
        IN  \A p \in Perms(Len(file_names)) :
                LET out == RunOutput(parts, p)
                IN  /\ Keys(out) = keys
                    /\ free => out = all_rows

\* A finished run over two different files, both with kept records, no two
\* of which have the same stock and price.
C10_Witness ==
    /\ pc = "done"
    /\ NoTies(accumulated)
    /\ \E i, j \in 1..Len(log) :
          /\ log[i].name # log[j].name
          /\ log[i].status = "ok" /\ log[i].kept > 0
          /\ log[j].status = "ok" /\ log[j].kept > 0

====
